---- MODULE Spec2Model ----
(***************************************************************************)
(* Dashboard overview of the course-management app (kurs72).               *)
(*                                                                         *)
(* The repository holds two variants of the DashboardOverview page:        *)
(*   PageA  src/unnamed/part_000           (async load(), try/catch/finally)*)
(*   PageB  src/src/pages/DashboardOverview.tsx (Promise.all().then()       *)
(*                                               .catch().finally())        *)
(* Both keep two pieces of React state, stats and loading, fill them from  *)
(* five concurrent fetches when the effect runs, and derive the displayed  *)
(* aggregates from stats on every render.                                  *)
(*                                                                         *)
(* Optional values (undefined / null) are encoded as sequences of length   *)
(* 0 or 1: None is the absent value, Some(x) a present one.                *)
(***************************************************************************)
EXTENDS Integers, Sequences, FiniteSets, TLC

None == <<>>
Some(x) == <<x>>
Val(o) == o[1]

PageA == "part_000"
PageB == "DashboardOverview.tsx"
Pages == {PageA, PageB}

----------------------------------------------------------------------------
(* Bounds of the model *)

\* instants (milliseconds, scaled) the clock can show at a render: 0..MaxNow
MaxNow == 5
\* a date string "day d" parses to the instant d * TicksPerDay
TicksPerDay == 2
\* longest registration list in the exhaustive payment / tally inputs
MaxAnm == 2
\* longest course list in the exhaustive revenue inputs
MaxKurseUmsatz == 2
\* longest course list in the exhaustive start / end / status inputs
MaxKurseDatum == 1
\* longest course list in the exhaustive start-date (sorting) inputs
MaxKurseSort == 2
\* number of courses beyond the top-six cut in the long tally inputs
MaxExtraKurse == 1
\* number of courses beyond the upcoming cut in the long date inputs
MaxExtraUpcoming == 1
\* longest course list in the exhaustive status inputs
MaxKurseStatus == 2
\* longest registration list in the exhaustive registration-date inputs
MaxAnmDatum == 3
\* number of registrations beyond the recent cut in the long date inputs
MaxExtraRecent == 1

----------------------------------------------------------------------------
(* Program constants *)

\* /([a-f0-9]{24})$/i : length of the trailing record id
IdLen == 24
\* .slice(0, 6) of the per-course registration counts
TopKurse == 6
\* .slice(0, 5) of the upcoming courses in PageA
UpcomingA == 5
\* .slice(0, 4) of the upcoming courses in PageB
UpcomingB == 4
\* .slice(0, 6) of the recent registrations in PageA
TopRecent == 6

----------------------------------------------------------------------------
(* Characters and record ids.  A string that the code inspects character   *)
(* by character (a record id, a reference URL) is a sequence of            *)
(* one-character strings.                                                  *)

HexLower == <<"0","1","2","3","4","5","6","7","8","9","a","b","c","d","e","f">>
HexUpper == <<"0","1","2","3","4","5","6","7","8","9","A","B","C","D","E","F">>

\* the character class [a-f0-9] under the i flag
IsHexChar(c) == \E i \in 1..16 : c = HexLower[i] \/ c = HexUpper[i]

\* the n-th record id the service hands out: 24 lower-case hex characters
RecordId(n) ==
  [i \in 1..IdLen |->
     IF i = IdLen THEN HexLower[(n % 16) + 1]
     ELSE IF i = IdLen - 1 THEN HexLower[((n \div 16) % 16) + 1]
     ELSE "6"]

\* the same id written in upper case
RecordIdUpper(n) ==
  [i \in 1..IdLen |->
     IF i = IdLen THEN HexUpper[(n % 16) + 1]
     ELSE IF i = IdLen - 1 THEN HexUpper[((n \div 16) % 16) + 1]
     ELSE "6"]

\* an applookup URL ending in the given id
UrlPrefix == <<"h", "t", "t", "p", ":", "/", "/", "x", "/">>
RecordUrl(id) == UrlPrefix \o id

----------------------------------------------------------------------------
(* Entities (src/src/types/app.ts).  Every field of `fields` is optional.  *)

\* a date string as the service delivers it: empty, unparsable, or the
\* ISO text of day `day`
EmptyString == [text |-> "", day |-> 0]
Garbage == [text |-> "garbage", day |-> 0]
IsoDay(d) == [text |-> "YYYY-MM-DD", day |-> d]

Kurse(id, titel, start, end, preis, status) ==
  [record_id |-> id,
   fields |-> [titel |-> titel, startdatum |-> start, enddatum |-> end,
               preis |-> preis, status |-> status]]

Anmeldungen(id, kurs, datum, bezahlt) ==
  [record_id |-> id,
   fields |-> [kurs |-> kurs, anmeldedatum |-> datum, bezahlt |-> bezahlt]]

Dozenten(id) == [record_id |-> id, fields |-> [name |-> None]]
Teilnehmer(id) == [record_id |-> id, fields |-> [name |-> None]]
Raeume(id) == [record_id |-> id, fields |-> [raumname |-> None]]

Stats(dozenten, teilnehmer, raeume, kurse, anmeldungen) ==
  [dozenten |-> dozenten, teilnehmer |-> teilnehmer, raeume |-> raeume,
   kurse |-> kurse, anmeldungen |-> anmeldungen]

----------------------------------------------------------------------------
(* Library and language primitives the pages use *)

Min(a, b) == IF a < b THEN a ELSE b

\* Array.prototype.slice(0, n)
Slice0(seq, n) == SubSeq(seq, 1, Min(n, Len(seq)))

\* Array.prototype.sort with a comparator keyA - keyB: ascending by key, and
\* stable (elements with equal keys keep their order).  key[i] is the key of
\* seq[i].
SortAscending(seq, key) ==
  LET pos(i) == Cardinality({j \in 1..Len(seq) :
                   key[j] < key[i] \/ (key[j] = key[i] /\ j < i)}) + 1
  IN [p \in 1..Len(seq) |-> seq[CHOOSE i \in 1..Len(seq) : pos(i) = p]]

\* JavaScript truthiness of an optional string
TruthyString(o) == o # None /\ Val(o).text # ""

\* JavaScript truthiness of an optional boolean
TruthyBool(o) == o = Some(TRUE)

\* a Date object: a time value, or Invalid Date (time NaN)
Date(t) == [valid |-> TRUE, time |-> t]
InvalidDate == [valid |-> FALSE, time |-> 0]

\* date-fns parseISO, and new Date(string): the instant of an ISO text,
\* Invalid Date for anything else
parseISO(str) ==
  IF str.text = "YYYY-MM-DD" THEN Date(str.day * TicksPerDay) ELSE InvalidDate

\* date-fns isBefore / isAfter: false when either date is invalid
isBefore(d, e) == d.valid /\ e.valid /\ d.time < e.time
isAfter(d, e) == d.valid /\ e.valid /\ d.time > e.time

\* d >= e on Date objects: compares the time values, false on NaN
DateGeq(d, e) == d.valid /\ e.valid /\ d.time >= e.time

\* str.match(/([a-f0-9]{24})$/i)?.[1] : the last IdLen characters when all
\* of them are hex digits of either case, undefined otherwise
MatchTrailingId(str) ==
  IF Len(str) < IdLen THEN None
  ELSE LET tail == SubSeq(str, Len(str) - IdLen + 1, Len(str))
       IN IF \A i \in 1..IdLen : IsHexChar(tail[i]) THEN Some(tail) ELSE None

\* extractRecordId of @/services/livingAppsService: null for an absent or
\* empty reference, else the trailing hex token
extractRecordId(url) ==
  IF url = None \/ Val(url) = <<>> THEN None ELSE MatchTrailingId(Val(url))

----------------------------------------------------------------------------
(* Derived values of PageA (src/unnamed/part_000, lines 64-94).  `stats`   *)
(* is the optional snapshot, `today` the Date of the render.               *)

\* const start = k.fields.startdatum ? parseISO(k.fields.startdatum) : null
ParsedOrNull(str) == IF TruthyString(str) THEN Some(parseISO(Val(str))) ELSE None

\* the filter without its end-date condition
IsActiveAStartOnly(k, today) ==
  LET start == ParsedOrNull(k.fields.startdatum)
  IN IF start = None THEN FALSE ELSE isBefore(Val(start), today)

IsActiveA(k, today) ==
  LET start == ParsedOrNull(k.fields.startdatum)
      end == ParsedOrNull(k.fields.enddatum)
  IN IF start = None THEN FALSE
     ELSE isBefore(Val(start), today) /\ (end = None \/ isAfter(Val(end), today))

activeKurse(stats, today) ==
  IF stats = None THEN <<>>
  ELSE SelectSeq(Val(stats).kurse, LAMBDA k : IsActiveA(k, today))

\* the filter with a start equal to now let through
IsUpcomingAOrNow(k, today) ==
  LET start == ParsedOrNull(k.fields.startdatum)
  IN start # None /\ DateGeq(Val(start), today)

IsUpcomingA(k, today) ==
  LET start == ParsedOrNull(k.fields.startdatum)
  IN start # None /\ isAfter(Val(start), today)

\* the keys of the comparator parseISO(a.startdatum).getTime() - ...
StartTimes(kurse) == [i \in 1..Len(kurse) |-> parseISO(Val(kurse[i].fields.startdatum)).time]

upcomingKurseA(stats, today) ==
  IF stats = None THEN <<>>
  ELSE LET up == SelectSeq(Val(stats).kurse, LAMBDA k : IsUpcomingA(k, today))
       IN Slice0(SortAscending(up, StartTimes(up)), UpcomingA)

\* a filter that takes every registration not marked unpaid as paid
IsNotUnbezahlt(a) == a.fields.bezahlt # Some(FALSE)

IsBezahlt(a) == TruthyBool(a.fields.bezahlt)

bezahltCount(stats) ==
  IF stats = None THEN 0
  ELSE Len(SelectSeq(Val(stats).anmeldungen, IsBezahlt))

unbezahltCount(stats) ==
  (IF stats = None THEN 0 ELSE Len(Val(stats).anmeldungen)) - bezahltCount(stats)

\* titles longer than TitelMax characters are cut and get an ellipsis
TitelMax == 18
ChartNameA(k) ==
  IF k.fields.titel # None /\ Val(k.fields.titel) # <<>>
  THEN (IF Len(Val(k.fields.titel)) > TitelMax
        THEN SubSeq(Val(k.fields.titel), 1, TitelMax) \o <<"...">>
        ELSE Val(k.fields.titel))
  ELSE <<"Unbenannt">>

\* a count of every registration that carries some record id
CountWithAnyId(k, anmeldungen) ==
  Len(SelectSeq(anmeldungen, LAMBDA a : extractRecordId(a.fields.kurs) # None))

\* stats.anmeldungen.filter(a => extractRecordId(a.fields.kurs) === k.record_id).length
CountForKursA(k, anmeldungen) ==
  Len(SelectSeq(anmeldungen,
        LAMBDA a : extractRecordId(a.fields.kurs) = Some(k.record_id)))

\* the keys of the comparator b.count - a.count (descending by count)
NegCounts(rows) == [i \in 1..Len(rows) |-> 0 - rows[i].count]

kursAnmeldungen(stats) ==
  IF stats = None THEN <<>>
  ELSE LET rows == [i \in 1..Len(Val(stats).kurse) |->
                      [name |-> ChartNameA(Val(stats).kurse[i]),
                       count |-> CountForKursA(Val(stats).kurse[i],
                                               Val(stats).anmeldungen)]]
       IN Slice0(SortAscending(rows, NegCounts(rows)), TopKurse)

\* a.fields.anmeldedatum ? parseISO(a.fields.anmeldedatum).getTime() : 0
\* as a Date: time 0 for a missing or empty date, an invalid Date (getTime()
\* is NaN) for a text that does not parse
RecentKey(a) ==
  IF TruthyString(a.fields.anmeldedatum) THEN parseISO(Val(a.fields.anmeldedatum))
  ELSE Date(0)

\* the comparator (a, b) => db - da; a NaN result counts as 0 in the sort
RecentCompare(a, b) ==
  IF RecentKey(a).valid /\ RecentKey(b).valid
  THEN RecentKey(b).time - RecentKey(a).time
  ELSE 0

NegRecentTimes(anm) == [i \in 1..Len(anm) |-> 0 - RecentKey(anm[i]).time]

Arrangements(n) == {p \in [1..n -> 1..n] : \A i, j \in 1..n : p[i] = p[j] => i = j}

\* [...anmeldungen].sort(comparator): the stable descending order when every
\* key is a number.  With a NaN key the comparator is not a consistent
\* comparison, and the order Array.prototype.sort produces is
\* implementation-defined: any arrangement in which no two neighbours are out
\* of order for the comparator.
RecentSorted(anm) ==
  IF \A i \in 1..Len(anm) : RecentKey(anm[i]).valid
  THEN {SortAscending(anm, NegRecentTimes(anm))}
  ELSE {[i \in 1..Len(anm) |-> anm[p[i]]] : p \in
          {q \in Arrangements(Len(anm)) :
             \A i \in 1..(Len(anm) - 1) : RecentCompare(anm[q[i]], anm[q[i + 1]]) <= 0}}

\* the lists recentAnmeldungen may hold after a render
recentAnmeldungen(stats) ==
  {Slice0(sorted, TopRecent) :
     sorted \in RecentSorted(IF stats = None THEN <<>> ELSE Val(stats).anmeldungen)}

----------------------------------------------------------------------------
(* Derived values of PageB (src/src/pages/DashboardOverview.tsx, 50-82)    *)

aktiveKurse(stats) ==
  IF stats = None THEN 0
  ELSE Len(SelectSeq(Val(stats).kurse, LAMBDA k : k.fields.status = Some("aktiv")))

\* a test that only asks whether the reference ends in a record id
RefersToAny(a, k) ==
  a.fields.kurs # None /\ MatchTrailingId(Val(a.fields.kurs)) # None

\* a.fields.kurs?.match(/([a-f0-9]{24})$/i); match?.[1] === k.record_id
RefersToB(a, k) ==
  a.fields.kurs # None /\ MatchTrailingId(Val(a.fields.kurs)) = Some(k.record_id)

\* k.fields.preis ?? 0
PreisOrZero(k) == IF k.fields.preis = None THEN 0 ELSE Val(k.fields.preis)

\* the reduce step without the paid filter
UmsatzOfAllAnmeldungen(k, anmeldungen) ==
  PreisOrZero(k) * Len(SelectSeq(anmeldungen, LAMBDA a : RefersToB(a, k)))

\* one step of the reduce: price times the number of paid registrations
\* referring to the course
UmsatzOf(k, anmeldungen) ==
  LET kursAnm == SelectSeq(anmeldungen, LAMBDA a : RefersToB(a, k))
  IN PreisOrZero(k) * Len(SelectSeq(kursAnm, IsBezahlt))

RECURSIVE ReduceUmsatz(_, _, _)
ReduceUmsatz(kurse, anmeldungen, sum) ==
  IF kurse = <<>> THEN sum
  ELSE ReduceUmsatz(Tail(kurse), anmeldungen, sum + UmsatzOf(Head(kurse), anmeldungen))

gesamtUmsatz(stats) ==
  IF stats = None THEN 0
  ELSE ReduceUmsatz(Val(stats).kurse, Val(stats).anmeldungen, 0)

ChartNameB(k) == IF k.fields.titel = None THEN <<"Unbekannt">> ELSE Val(k.fields.titel)

CountForKursB(k, anmeldungen) ==
  Len(SelectSeq(anmeldungen, LAMBDA a : RefersToB(a, k)))

NegAnmeldungen(rows) == [i \in 1..Len(rows) |-> 0 - rows[i].anmeldungen]

kursAnmeldungenData(stats) ==
  LET kurse == IF stats = None THEN <<>> ELSE Val(stats).kurse
      rows == [i \in 1..Len(kurse) |->
                 [name |-> ChartNameB(kurse[i]),
                  anmeldungen |-> IF stats = None THEN 0
                                  ELSE CountForKursB(kurse[i], Val(stats).anmeldungen)]]
  IN Slice0(SortAscending(rows, NegAnmeldungen(rows)), TopKurse)

\* k.fields.startdatum && new Date(k.fields.startdatum) >= today
IsUpcomingB(k, today) ==
  TruthyString(k.fields.startdatum)
  /\ DateGeq(parseISO(Val(k.fields.startdatum)), today)

upcomingKurseB(stats, today) ==
  LET kurse == IF stats = None THEN <<>> ELSE Val(stats).kurse
      up == SelectSeq(kurse, LAMBDA k : IsUpcomingB(k, today))
  IN Slice0(SortAscending(up, StartTimes(up)), UpcomingB)

\* the four status values, in the order the page lists them
StatusOrder == <<"geplant", "aktiv", "abgeschlossen", "abgesagt">>

STATUS_COLORS(s) ==
  CASE s = "geplant" -> "oklch(0.72 0.18 55)"
    [] s = "aktiv" -> "oklch(0.62 0.18 160)"
    [] s = "abgeschlossen" -> "oklch(0.52 0.22 268)"
    [] s = "abgesagt" -> "oklch(0.577 0.245 27.325)"

STATUS_LABELS(s) ==
  CASE s = "geplant" -> "Geplant"
    [] s = "aktiv" -> "Aktiv"
    [] s = "abgeschlossen" -> "Abgeschlossen"
    [] s = "abgesagt" -> "Abgesagt"

\* a filter that keeps every bucket, empty ones included
StatusShownAlways(d) == d.value >= 0

\* .filter(d => d.value > 0)
StatusShown(d) == d.value > 0

\* stats?.kurse.filter(k => k.fields.status === s).length ?? 0
StatusCount(stats, s) ==
  IF stats = None THEN 0
  ELSE Len(SelectSeq(Val(stats).kurse, LAMBDA k : k.fields.status = Some(s)))

statusData(stats) ==
  SelectSeq([i \in 1..Len(StatusOrder) |->
               [name |-> STATUS_LABELS(StatusOrder[i]),
                value |-> StatusCount(stats, StatusOrder[i]),
                color |-> STATUS_COLORS(StatusOrder[i])]],
            StatusShown)

----------------------------------------------------------------------------
(* The component: React state, the five fetches, the promises of the load  *)

VARIABLES
  page,      \* which variant of the page is mounted
  now,       \* the instant the system clock shows while the view is observed
  mounted,   \* FALSE once the view has been torn down
  fetch,     \* per service call: [state, value] of the promise it returned
  issued,    \* per service call: how often it was called
  promises,  \* state of Promise.all and of the promises chained on it
  joined,    \* the array Promise.all fulfilled with, if it did
  stats,     \* useState<Stats | null>(null)
  loading,   \* useState(true)
  errorLog,  \* number of console.error calls
  out        \* what the last render computed, with the inputs it read

vars == <<page, now, mounted, fetch, issued, promises, joined, stats, loading, errorLog, out>>

Fetches == {"getDozenten", "getTeilnehmer", "getRaeume", "getKurse", "getAnmeldungen"}

\* the order of the calls inside Promise.all([...])
CallOrder(p) ==
  IF p = PageA
  THEN <<"getDozenten", "getTeilnehmer", "getRaeume", "getKurse", "getAnmeldungen">>
  ELSE <<"getKurse", "getAnmeldungen", "getDozenten", "getTeilnehmer", "getRaeume">>

\* const [...] = <array>; setStats({...}) : the array positions bound to the
\* fields of the snapshot
Destructure(p, v) ==
  IF p = PageA
  THEN Stats(v[1], v[2], v[3], v[4], v[5])
  ELSE [kurse |-> v[1], anmeldungen |-> v[2], dozenten |-> v[3],
        teilnehmer |-> v[4], raeume |-> v[5]]

\* what the service may answer to each call during a load
Responses(f) ==
  CASE f = "getDozenten" -> {<<Dozenten(RecordId(32))>>}
    [] f = "getTeilnehmer" -> {<<Teilnehmer(RecordId(48))>>}
    [] f = "getRaeume" -> {<<Raeume(RecordId(64))>>}
    [] f = "getKurse" ->
         {<<>>, <<Kurse(RecordId(1), Some(<<"K", "1">>), Some(IsoDay(1)), None,
                        Some(2), Some("aktiv"))>>}
    [] f = "getAnmeldungen" ->
         {<<>>, <<Anmeldungen(RecordId(16), Some(RecordUrl(RecordId(1))),
                              Some(IsoDay(1)), Some(TRUE))>>}

PromiseNames == {"all", "then", "catch", "finally", "load"}

\* the instants the clock may show: const today = new Date()
Instants == 0..MaxNow

Init ==
  /\ page \in Pages
  /\ now \in Instants
  /\ mounted = TRUE
  /\ fetch = [f \in Fetches |-> [state |-> "none", value |-> <<>>]]
  /\ issued = [f \in Fetches |-> 0]
  /\ promises = [n \in PromiseNames |-> "none"]
  /\ joined = None
  /\ stats = None
  /\ loading = TRUE
  /\ errorLog = 0
  /\ out = None

\* useEffect without the [] dependency list: due after every commit
EffectAlwaysDue == promises["all"] # "pending"

\* useEffect(() => {...}, []) : the effect is due once, after the first commit
EffectDue == promises["all"] = "none"

\* the effect: all five service calls are made, Promise.all is created, and
\* PageA's load() suspends at the await / PageB's chain is attached
UseEffect ==
  /\ EffectDue
  /\ mounted
  /\ fetch' = [f \in Fetches |-> [state |-> "pending", value |-> <<>>]]
  /\ issued' = [f \in Fetches |-> issued[f] + 1]
  /\ promises' = [n \in PromiseNames |->
                    IF n = "all" THEN "pending"
                    ELSE IF page = PageA THEN (IF n = "load" THEN "pending" ELSE "none")
                    ELSE (IF n = "load" THEN "none" ELSE "pending")]
  /\ UNCHANGED <<page, now, mounted, joined, stats, loading, errorLog, out>>

\* the service answers a call
Fulfil(f) ==
  /\ fetch[f].state = "pending"
  /\ \E v \in Responses(f) : fetch' = [fetch EXCEPT ![f] = [state |-> "fulfilled", value |-> v]]
  /\ UNCHANGED <<page, now, mounted, issued, promises, joined, stats, loading, errorLog, out>>

\* the service call fails
Reject(f) ==
  /\ fetch[f].state = "pending"
  /\ fetch' = [fetch EXCEPT ![f] = [state |-> "rejected", value |-> <<>>]]
  /\ UNCHANGED <<page, now, mounted, issued, promises, joined, stats, loading, errorLog, out>>

\* a join that settles on the first fulfilment instead of the last
AnyFulfilled(fs) == \E f \in Fetches : fs[f].state = "fulfilled"

\* Promise.all fulfils when every element has fulfilled ...
AllFulfilled(fs) == \A f \in Fetches : fs[f].state = "fulfilled"

AllResolve ==
  /\ promises["all"] = "pending"
  /\ AllFulfilled(fetch)
  /\ promises' = [promises EXCEPT !["all"] = "fulfilled"]
  /\ joined' = Some([i \in 1..5 |-> fetch[CallOrder(page)[i]].value])
  /\ UNCHANGED <<page, now, mounted, fetch, issued, stats, loading, errorLog, out>>

\* a join that waits for every element to settle before it rejects
AllRejectAfterAllSettled ==
  /\ promises["all"] = "pending"
  /\ \A f \in Fetches : fetch[f].state \in {"fulfilled", "rejected"}
  /\ \E f \in Fetches : fetch[f].state = "rejected"
  /\ promises' = [promises EXCEPT !["all"] = "rejected"]
  /\ UNCHANGED <<page, now, mounted, fetch, issued, joined, stats, loading, errorLog, out>>

\* ... and rejects as soon as one element has rejected
AllReject ==
  /\ promises["all"] = "pending"
  /\ \E f \in Fetches : fetch[f].state = "rejected"
  /\ promises' = [promises EXCEPT !["all"] = "rejected"]
  /\ UNCHANGED <<page, now, mounted, fetch, issued, joined, stats, loading, errorLog, out>>

(* PageA: async function load() { try { await ...; setStats } catch { log }  *)
(* finally { setLoading(false) } }                                          *)

\* load() with setLoading(false) left out of the success path
LoadTryKeepsLoading ==
  /\ page = PageA
  /\ promises["load"] = "pending"
  /\ promises["all"] = "fulfilled"
  /\ stats' = Some(Destructure(page, Val(joined)))
  /\ promises' = [promises EXCEPT !["load"] = "fulfilled"]
  /\ UNCHANGED <<page, now, mounted, fetch, issued, joined, loading, errorLog, out>>

\* the await returns: setStats, then the finally block
LoadTry ==
  /\ page = PageA
  /\ promises["load"] = "pending"
  /\ promises["all"] = "fulfilled"
  /\ stats' = Some(Destructure(page, Val(joined)))
  /\ loading' = FALSE
  /\ promises' = [promises EXCEPT !["load"] = "fulfilled"]
  /\ UNCHANGED <<page, now, mounted, fetch, issued, joined, errorLog, out>>

\* load() with setLoading(false) at the end of the try block, not in finally
LoadCatchKeepsLoading ==
  /\ page = PageA
  /\ promises["load"] = "pending"
  /\ promises["all"] = "rejected"
  /\ errorLog' = errorLog + 1
  /\ promises' = [promises EXCEPT !["load"] = "fulfilled"]
  /\ UNCHANGED <<page, now, mounted, fetch, issued, joined, stats, loading, out>>

\* the await throws: the catch block logs, then the finally block
LoadCatch ==
  /\ page = PageA
  /\ promises["load"] = "pending"
  /\ promises["all"] = "rejected"
  /\ errorLog' = errorLog + 1
  /\ loading' = FALSE
  /\ promises' = [promises EXCEPT !["load"] = "fulfilled"]
  /\ UNCHANGED <<page, now, mounted, fetch, issued, joined, stats, out>>

(* PageB: Promise.all(...).then(setStats...).catch(console.error)           *)
(*          .finally(() => setLoading(false))                               *)

\* .then(onFulfilled): runs the callback, or passes the rejection on
ThenCallback ==
  /\ page = PageB
  /\ promises["then"] = "pending"
  /\ promises["all"] = "fulfilled"
  /\ stats' = Some(Destructure(page, Val(joined)))
  /\ promises' = [promises EXCEPT !["then"] = "fulfilled"]
  /\ UNCHANGED <<page, now, mounted, fetch, issued, joined, loading, errorLog, out>>

ThenPassRejection ==
  /\ page = PageB
  /\ promises["then"] = "pending"
  /\ promises["all"] = "rejected"
  /\ promises' = [promises EXCEPT !["then"] = "rejected"]
  /\ UNCHANGED <<page, now, mounted, fetch, issued, joined, stats, loading, errorLog, out>>

\* .catch(console.error): logs a rejection, or passes the fulfilment on
CatchCallback ==
  /\ page = PageB
  /\ promises["catch"] = "pending"
  /\ promises["then"] = "rejected"
  /\ errorLog' = errorLog + 1
  /\ promises' = [promises EXCEPT !["catch"] = "fulfilled"]
  /\ UNCHANGED <<page, now, mounted, fetch, issued, joined, stats, loading, out>>

CatchPassValue ==
  /\ page = PageB
  /\ promises["catch"] = "pending"
  /\ promises["then"] = "fulfilled"
  /\ promises' = [promises EXCEPT !["catch"] = "fulfilled"]
  /\ UNCHANGED <<page, now, mounted, fetch, issued, joined, stats, loading, errorLog, out>>

\* .finally(() => setLoading(false)): runs on either outcome and settles as
\* the promise before it did
FinallyCallback ==
  /\ page = PageB
  /\ promises["finally"] = "pending"
  /\ promises["catch"] \in {"fulfilled", "rejected"}
  /\ loading' = FALSE
  /\ promises' = [promises EXCEPT !["finally"] = promises["catch"]]
  /\ UNCHANGED <<page, now, mounted, fetch, issued, joined, stats, errorLog, out>>

\* a teardown that detaches the pending load: its handlers never run
UnmountCancels ==
  /\ mounted
  /\ ~EffectDue
  /\ mounted' = FALSE
  /\ promises' = [n \in PromiseNames |->
                    IF promises[n] = "pending" THEN "cancelled" ELSE promises[n]]
  /\ UNCHANGED <<page, now, fetch, issued, joined, stats, loading, errorLog, out>>

\* the view is torn down; nothing is cancelled
Unmount ==
  /\ mounted
  /\ ~EffectDue
  /\ mounted' = FALSE
  /\ UNCHANGED <<page, now, fetch, issued, promises, joined, stats, loading, errorLog, out>>

RenderA ==
  /\ page = PageA
  /\ mounted
  /\ \E recent \in recentAnmeldungen(stats) :
     LET t == now IN
       out' = Some([stats |-> stats, today |-> t,
                    activeKurse |-> activeKurse(stats, Date(t)),
                    upcomingKurse |-> upcomingKurseA(stats, Date(t)),
                    bezahltCount |-> bezahltCount(stats),
                    unbezahltCount |-> unbezahltCount(stats),
                    kursAnmeldungen |-> kursAnmeldungen(stats),
                    recentAnmeldungen |-> recent])
  /\ UNCHANGED <<page, now, mounted, fetch, issued, promises, joined, stats, loading, errorLog>>

RenderB ==
  /\ page = PageB
  /\ mounted
  /\ LET t == now IN
       out' = Some([stats |-> stats, today |-> t,
                    aktiveKurse |-> aktiveKurse(stats),
                    bezahltCount |-> bezahltCount(stats),
                    unbezahltCount |-> unbezahltCount(stats),
                    gesamtUmsatz |-> gesamtUmsatz(stats),
                    statusData |-> statusData(stats),
                    kursAnmeldungenData |-> kursAnmeldungenData(stats),
                    upcomingKurse |-> upcomingKurseB(stats, Date(t))])
  /\ UNCHANGED <<page, now, mounted, fetch, issued, promises, joined, stats, loading, errorLog>>

Next ==
  \/ UseEffect
  \/ \E f \in Fetches : Fulfil(f)
  \/ \E f \in Fetches : Reject(f)
  \/ AllResolve
  \/ AllReject
  \/ LoadTry
  \/ LoadCatch
  \/ ThenCallback
  \/ ThenPassRejection
  \/ CatchCallback
  \/ CatchPassValue
  \/ FinallyCallback
  \/ Unmount
  \/ RenderA
  \/ RenderB

Spec == Init /\ [][Next]_vars

\* The runtime runs every queued promise reaction and the effect of a mounted
\* component, and (the assumption of C3) every service call settles.
Fairness ==
  /\ WF_vars(UseEffect)
  /\ \A f \in Fetches : WF_vars(Fulfil(f) \/ Reject(f))
  /\ WF_vars(AllResolve)
  /\ WF_vars(AllReject)
  /\ WF_vars(LoadTry)
  /\ WF_vars(LoadCatch)
  /\ WF_vars(ThenCallback)
  /\ WF_vars(ThenPassRejection)
  /\ WF_vars(CatchCallback)
  /\ WF_vars(CatchPassValue)
  /\ WF_vars(FinallyCallback)

FairSpec == Spec /\ Fairness

\* The runtime alone: every queued promise reaction runs, but a service call
\* may stay pending for ever.
HandlerFairness ==
  /\ WF_vars(UseEffect)
  /\ WF_vars(AllResolve)
  /\ WF_vars(AllReject)
  /\ WF_vars(LoadTry)
  /\ WF_vars(LoadCatch)
  /\ WF_vars(ThenCallback)
  /\ WF_vars(ThenPassRejection)
  /\ WF_vars(CatchCallback)
  /\ WF_vars(CatchPassValue)
  /\ WF_vars(FinallyCallback)

ShortCircuitSpec == Spec /\ HandlerFairness

----------------------------------------------------------------------------
(* Properties of the load cycle *)

Settled == {"fulfilled", "rejected"}

\* the promise at the end of the load has settled
LoadSettled == promises["load"] \in Settled \/ promises["finally"] \in Settled

\* C1: stats is null, or all five fetches have fulfilled and each collection
\* of stats is the value its own fetch fulfilled with; never a strict subset.
C1_SnapshotAllOrNothing ==
  stats = None
  \/ /\ \A f \in Fetches : fetch[f].state = "fulfilled"
     /\ DOMAIN Val(stats) = {"dozenten", "teilnehmer", "raeume", "kurse", "anmeldungen"}
     /\ Val(stats).dozenten = fetch["getDozenten"].value
     /\ Val(stats).teilnehmer = fetch["getTeilnehmer"].value
     /\ Val(stats).raeume = fetch["getRaeume"].value
     /\ Val(stats).kurse = fetch["getKurse"].value
     /\ Val(stats).anmeldungen = fetch["getAnmeldungen"].value

C1_Witness ==
  /\ stats # None
  /\ Val(stats).kurse # <<>>
  /\ Val(stats).anmeldungen # <<>>
  /\ Val(stats).dozenten # <<>>

\* C2: once a fetch has rejected, stats is null, nothing is logged twice, no
\* rejection is left unhandled, and when the load has finished loading is
\* false and the failure was logged exactly once.
C2_FailedLoadNoData ==
  (\E f \in Fetches : fetch[f].state = "rejected") =>
     /\ stats = None
     /\ errorLog <= 1
     /\ promises["load"] # "rejected"
     /\ promises["finally"] # "rejected"
     /\ LoadSettled => (loading = FALSE /\ errorLog = 1)

C2_Witness ==
  /\ LoadSettled
  /\ \E f \in Fetches : fetch[f].state = "rejected"
  /\ \E f \in Fetches : fetch[f].state = "fulfilled" /\ fetch[f].value # <<>>
  /\ loading = FALSE
  /\ errorLog = 1

\* C3: when every fetch eventually settles, loading eventually becomes false
\* and stays false, after a successful load and after a failed one.
C3_LoadingEnds == <>[](loading = FALSE)

C3_Witness ==
  /\ loading = FALSE
  /\ stats = None
  /\ \E f \in Fetches : fetch[f].state = "pending"

\* C4: each service call is made exactly once per activation (never before
\* the effect, once from then on), and once loading is false neither loading
\* nor stats changes again; loading never goes back to true.
C4_OneShot ==
  [][ /\ \A f \in Fetches :
           issued'[f] = (IF promises'["all"] = "none" THEN 0 ELSE 1)
      /\ (loading = FALSE) => (loading' = FALSE /\ stats' = stats)
    ]_vars

C4_Witness ==
  /\ loading = FALSE
  /\ errorLog = 1
  /\ \A f \in Fetches : issued[f] = 1 /\ fetch[f].state \in Settled
  /\ mounted

\* C14: once one fetch has rejected, the failure is logged and loading is set
\* to false even if the other fetches never settle; and from the moment the
\* failure path has run, no later step (a remaining fetch fulfilling or
\* rejecting included) changes stats, loading or the log.
C14_ShortCircuit ==
  /\ (\E f \in Fetches : fetch[f].state = "rejected") ~> (loading = FALSE /\ errorLog = 1)
  /\ [][ (loading = FALSE /\ errorLog = 1) =>
            (stats' = None /\ loading' = FALSE /\ errorLog' = 1) ]_vars

C14_Witness ==
  /\ loading = FALSE
  /\ errorLog = 1
  /\ Cardinality({f \in Fetches : fetch[f].state = "rejected"}) = 1
  /\ Cardinality({f \in Fetches : fetch[f].state = "pending"}) = 4

\* C15: the teardown step changes no fetch, no promise and no state of the
\* load; after a teardown during the load the handlers still run, so loading
\* is set to false and a fulfilled join's snapshot is stored with the view
\* gone; and with the view gone stats is still null or the complete snapshot.
C15_NoCancellation ==
  /\ [][ (mounted /\ ~mounted') =>
            UNCHANGED <<fetch, issued, promises, joined, stats, loading, errorLog>> ]_vars
  /\ (~mounted /\ loading) ~> (~mounted /\ loading = FALSE)
  /\ (~mounted /\ promises["all"] = "fulfilled" /\ stats = None) ~> (~mounted /\ stats # None)
  /\ [](~mounted => C1_SnapshotAllOrNothing)

C15_Witness ==
  /\ ~mounted
  /\ loading
  /\ promises["all"] = "pending"
  /\ \E f \in Fetches : fetch[f].state = "pending"
  /\ \E f \in Fetches : fetch[f].state = "fulfilled"

----------------------------------------------------------------------------
(* The aggregation on its own: the view after a successful load, for a     *)
(* bounded catalogue of snapshots and clock readings, rendered once.       *)

SeqsUpTo(S, n) == UNION {[1..k -> S] : k \in 0..n}

Titel(n) == Some(<<"K", HexLower[(n % 16) + 1]>>)

\* courses that differ in identity and price (ids 1 and 2 exist, 3 does not)
UmsatzKurse ==
  {Kurse(RecordId(1), Titel(1), None, None, Some(3), None),
   Kurse(RecordId(1), Titel(3), None, None, Some(0 - 1), None),
   Kurse(RecordId(2), None, None, None, None, None)}

\* registrations that differ in course reference and paid flag
UmsatzAnmeldungen ==
  {Anmeldungen(RecordId(16), None, None, Some(TRUE)),
   Anmeldungen(RecordId(17), Some(RecordUrl(RecordId(1))), None, Some(TRUE)),
   Anmeldungen(RecordId(19), Some(RecordUrl(RecordId(1))), None, None),
   Anmeldungen(RecordId(20), Some(RecordUrl(RecordId(3))), None, Some(TRUE)),
   Anmeldungen(RecordId(21), Some(RecordUrl(RecordIdUpper(10))), None, Some(TRUE)),
   Anmeldungen(RecordId(22), Some(<<"x", "/", "1">>), None, Some(FALSE))}

UmsatzInputs ==
  {[snap |-> Stats(<<>>, <<>>, <<>>, ks, as), now |-> 0] :
     ks \in SeqsUpTo(UmsatzKurse, MaxKurseUmsatz),
     as \in SeqsUpTo(UmsatzAnmeldungen, MaxAnm)}

\* n courses with pairwise distinct ids 1..n, one registration for each of
\* the first m of them, and at most one further registration
TallyKurse(n) == [i \in 1..n |-> Kurse(RecordId(i), Titel(i), None, None, Some(1), None)]
TallyAnmeldungen(m) ==
  [i \in 1..m |-> Anmeldungen(RecordId(32 + i), Some(RecordUrl(RecordId(i))), None,
                              Some(TRUE))]

TallyInputs ==
  {[snap |-> Stats(<<>>, <<>>, <<>>, TallyKurse(n), TallyAnmeldungen(m) \o extra),
    now |-> 0] :
     n \in 0..(TopKurse + MaxExtraKurse),
     m \in 0..(TopKurse + MaxExtraKurse),
     extra \in SeqsUpTo(UmsatzAnmeldungen, 1)}

\* date strings of courses
Days == 1..3
StartStrings == {None, Some(EmptyString), Some(Garbage), Some(IsoDay(1))}
EndStrings == {None, Some(EmptyString), Some(Garbage), Some(IsoDay(2))}
StatusValues == {Some("aktiv"), Some("geplant")}

DatumKurse ==
  {Kurse(RecordId(1), Titel(1), s, e, None, st) :
     s \in StartStrings, e \in EndStrings, st \in StatusValues}

SortKurse ==
  {Kurse(RecordId(d), Titel(d), Some(IsoDay(d)), None, None, Some("geplant")) : d \in Days}
  \cup {Kurse(RecordId(4), Titel(4), Some(IsoDay(2)), None, None, None),
        Kurse(RecordId(5), Titel(5), None, None, None, None)}

\* n courses starting on days 1, 2, 3, 2, 3, 2, ... : more than the list shows
LongKurse(n) ==
  [i \in 1..n |-> Kurse(RecordId(i), Titel(i),
                        Some(IsoDay(IF i = 1 THEN 1 ELSE 2 + (i % 2))), None,
                        None, Some("geplant"))]

DatumInputs ==
  {[snap |-> Stats(<<>>, <<>>, <<>>, ks, <<>>), now |-> t] :
     ks \in SeqsUpTo(DatumKurse, MaxKurseDatum) \cup SeqsUpTo(SortKurse, MaxKurseSort)
            \cup {LongKurse(n) : n \in 0..(UpcomingA + 1 + MaxExtraUpcoming)},
     t \in Instants}

\* courses that differ in status only
StatusKurse ==
  {Kurse(RecordId(1), Titel(1), None, None, None, st) :
     st \in {None} \cup {Some(StatusOrder[i]) : i \in 1..Len(StatusOrder)}}

StatusInputs ==
  {[snap |-> Stats(<<>>, <<>>, <<>>, ks, <<>>), now |-> 0] :
     ks \in SeqsUpTo(StatusKurse, MaxKurseStatus)}

\* registrations that differ in registration date: absent, empty,
\* unparsable, before the epoch, after it
RecentAnmeldungen ==
  {Anmeldungen(RecordId(48), None, d, None) :
     d \in {None, Some(EmptyString), Some(Garbage), Some(IsoDay(0 - 1)),
            Some(IsoDay(1)), Some(IsoDay(2))}}

\* n registrations dated day 1, none, day 3, day 2, day 1, none, ... : more
\* than the list shows
LongAnmeldungen(n) ==
  [i \in 1..n |-> Anmeldungen(RecordId(64 + i), None,
                              CASE i % 4 = 1 -> Some(IsoDay(1))
                                [] i % 4 = 2 -> None
                                [] i % 4 = 3 -> Some(IsoDay(3))
                                [] i % 4 = 0 -> Some(IsoDay(2)),
                              None)]

RecentInputs ==
  {[snap |-> Stats(<<>>, <<>>, <<>>, <<>>, as), now |-> 0] :
     as \in SeqsUpTo(RecentAnmeldungen, MaxAnmDatum)
            \cup {LongAnmeldungen(n) : n \in 0..(TopRecent + 1 + MaxExtraRecent)}}

Inputs ==
  UmsatzInputs \cup TallyInputs \cup DatumInputs \cup StatusInputs \cup RecentInputs

\* the state a successful load of the snapshot leaves behind
\* a render works on a loaded snapshot ...
InitLoaded ==
  /\ \E e \in Inputs :
       /\ now = e.now
       /\ stats = Some(e.snap)
       /\ fetch = [f \in Fetches |->
                     [state |-> "fulfilled",
                      value |-> CASE f = "getDozenten" -> e.snap.dozenten
                                  [] f = "getTeilnehmer" -> e.snap.teilnehmer
                                  [] f = "getRaeume" -> e.snap.raeume
                                  [] f = "getKurse" -> e.snap.kurse
                                  [] f = "getAnmeldungen" -> e.snap.anmeldungen]]
  /\ joined = Some([i \in 1..5 |-> fetch[CallOrder(page)[i]].value])
  /\ issued = [f \in Fetches |-> 1]
  /\ promises = [n \in PromiseNames |->
                   IF n = "all" THEN "fulfilled"
                   ELSE IF page = PageA THEN (IF n = "load" THEN "fulfilled" ELSE "none")
                   ELSE (IF n = "load" THEN "none" ELSE "fulfilled")]
  /\ loading = FALSE
  /\ errorLog = 0

\* ... or on no snapshot while the calls are in flight ...
InitStillLoading ==
  /\ now \in Instants
  /\ stats = None
  /\ fetch = [f \in Fetches |-> [state |-> "pending", value |-> <<>>]]
  /\ joined = None
  /\ issued = [f \in Fetches |-> 1]
  /\ promises = [n \in PromiseNames |->
                   IF n = "all" THEN "pending"
                   ELSE IF page = PageA THEN (IF n = "load" THEN "pending" ELSE "none")
                   ELSE (IF n = "load" THEN "none" ELSE "pending")]
  /\ loading = TRUE
  /\ errorLog = 0

\* ... or on no snapshot after a load in which every call failed
InitLoadFailed ==
  /\ now \in Instants
  /\ stats = None
  /\ fetch = [f \in Fetches |-> [state |-> "rejected", value |-> <<>>]]
  /\ joined = None
  /\ issued = [f \in Fetches |-> 1]
  /\ promises = [n \in PromiseNames |->
                   IF n = "all" THEN "rejected"
                   ELSE IF page = PageA THEN (IF n = "load" THEN "fulfilled" ELSE "none")
                   ELSE (IF n = "load" THEN "none"
                         ELSE IF n = "then" THEN "rejected" ELSE "fulfilled")]
  /\ loading = FALSE
  /\ errorLog = 1

InitAgg ==
  /\ page \in Pages
  /\ mounted = TRUE
  /\ out = None
  /\ (InitLoaded \/ InitStillLoading \/ InitLoadFailed)

NextAgg == RenderA \/ RenderB

SpecAgg == InitAgg /\ [][NextAgg]_vars

----------------------------------------------------------------------------
(* Properties of the derived values, stated on what a render computed      *)
(* (out) from the snapshot and the clock reading it read.                  *)

Rendered(p) == out # None /\ page = p
OutKurse == IF Val(out).stats = None THEN <<>> ELSE Val(Val(out).stats).kurse
OutAnmeldungen == IF Val(out).stats = None THEN <<>> ELSE Val(Val(out).stats).anmeldungen

RECURSIVE SumOf(_)
SumOf(seq) == IF seq = <<>> THEN 0 ELSE Head(seq) + SumOf(Tail(seq))

\* the record id a registration's course reference ends in, if any
RefId(a) == IF a.fields.kurs = None THEN None ELSE MatchTrailingId(Val(a.fields.kurs))

\* the registration refers to the identity of some course of the list
Resolves(a, kurse) ==
  RefId(a) # None /\ \E i \in 1..Len(kurse) : kurse[i].record_id = Val(RefId(a))

PaidFlagTrue(a) == a.fields.bezahlt # None /\ Val(a.fields.bezahlt) = TRUE

\* the per-course counts a render shows, in either page
ShownCounts ==
  IF page = PageA
  THEN [i \in 1..Len(Val(out).kursAnmeldungen) |-> Val(out).kursAnmeldungen[i].count]
  ELSE [i \in 1..Len(Val(out).kursAnmeldungenData) |->
          Val(out).kursAnmeldungenData[i].anmeldungen]

\* C5: paidCount is the number of registrations whose paid flag is true (an
\* absent flag is not paid), paidCount + unpaidCount is the number of
\* registrations, and 0 <= unpaidCount <= total.
C5_PaidPlusUnpaid ==
  out # None =>
    LET total == Len(OutAnmeldungen)
        paid == Cardinality({i \in 1..total : PaidFlagTrue(OutAnmeldungen[i])})
    IN /\ Val(out).bezahltCount = paid
       /\ Val(out).bezahltCount + Val(out).unbezahltCount = total
       /\ 0 <= Val(out).unbezahltCount
       /\ Val(out).unbezahltCount <= total

C5_Witness ==
  /\ out # None
  /\ \E i \in 1..Len(OutAnmeldungen) : OutAnmeldungen[i].fields.bezahlt = None
  /\ \E i \in 1..Len(OutAnmeldungen) : OutAnmeldungen[i].fields.bezahlt = Some(TRUE)
  /\ Val(out).unbezahltCount = 1

\* C6 as stated: for all course and registration collections the revenue is
\* >= 0, and it is exactly 0 whenever no registration is paid.
C6_RevenueNeverNegative ==
  Rendered(PageB) =>
    /\ Val(out).gesamtUmsatz >= 0
    /\ (\A i \in 1..Len(OutAnmeldungen) : ~PaidFlagTrue(OutAnmeldungen[i]))
         => Val(out).gesamtUmsatz = 0

\* C6 amended: when every course price is absent or >= 0 the revenue is >= 0;
\* for all collections the revenue is exactly 0 whenever no registration is
\* paid.
C6_RevenueOfNonNegativePrices ==
  Rendered(PageB) =>
    /\ (\A i \in 1..Len(OutKurse) :
           OutKurse[i].fields.preis = None \/ Val(OutKurse[i].fields.preis) >= 0)
         => Val(out).gesamtUmsatz >= 0
    /\ (\A i \in 1..Len(OutAnmeldungen) : ~PaidFlagTrue(OutAnmeldungen[i]))
         => Val(out).gesamtUmsatz = 0

C6_Witness ==
  /\ Rendered(PageB)
  /\ Val(out).gesamtUmsatz > 0
  /\ \E i \in 1..Len(OutKurse) : OutKurse[i].fields.preis = None
  /\ \E i \in 1..Len(OutAnmeldungen) : ~PaidFlagTrue(OutAnmeldungen[i])

PairwiseDistinctIds(kurse) ==
  \A i, j \in 1..Len(kurse) : kurse[i].record_id = kurse[j].record_id => i = j

ResolvingCount ==
  Cardinality({i \in 1..Len(OutAnmeldungen) : Resolves(OutAnmeldungen[i], OutKurse)})

\* C7 as stated: for every input the shown per-course counts sum to the
\* number of registrations whose reference resolves to a loaded course.
C7_CountsSumToResolving ==
  out # None => SumOf(ShownCounts) = ResolvingCount

\* C7 amended: the list shows min(6, number of courses) counts in
\* non-increasing order; when at most six courses are loaded and no two share
\* an identity, the counts sum to the number of registrations whose reference
\* resolves to a loaded course (absent and unmatched references not counted).
C7_CountsSumUpToSix ==
  out # None =>
    /\ Len(ShownCounts) = Min(TopKurse, Len(OutKurse))
    /\ \A i, j \in 1..Len(ShownCounts) : i < j => ShownCounts[i] >= ShownCounts[j]
    /\ (Len(OutKurse) <= TopKurse /\ PairwiseDistinctIds(OutKurse))
         => SumOf(ShownCounts) = ResolvingCount

C7_Witness ==
  /\ out # None
  /\ Len(OutKurse) = TopKurse
  /\ PairwiseDistinctIds(OutKurse)
  /\ SumOf(ShownCounts) = 3
  /\ Len(OutAnmeldungen) = 4

\* the snapshot a render read, without its i-th registration
WithoutAnmeldung(i) ==
  Some([Val(Val(out).stats) EXCEPT !.anmeldungen =
          SubSeq(OutAnmeldungen, 1, i - 1) \o SubSeq(OutAnmeldungen, i + 1, Len(OutAnmeldungen))])

\* C8: a registration whose reference carries an identity of no loaded course
\* adds nothing to any course's tally and nothing to the revenue, paid or not
\* (both are what they would be without it), and is counted in the total and
\* in the paid or unpaid count.
C8_UnmatchedRegistration ==
  out # None =>
    \A i \in 1..Len(OutAnmeldungen) :
      (RefId(OutAnmeldungen[i]) # None /\ ~Resolves(OutAnmeldungen[i], OutKurse)) =>
        /\ Val(out).bezahltCount + Val(out).unbezahltCount = Len(OutAnmeldungen)
        /\ Val(out).bezahltCount = bezahltCount(WithoutAnmeldung(i))
              + (IF PaidFlagTrue(OutAnmeldungen[i]) THEN 1 ELSE 0)
        /\ Val(out).unbezahltCount = unbezahltCount(WithoutAnmeldung(i))
              + (IF PaidFlagTrue(OutAnmeldungen[i]) THEN 0 ELSE 1)
        /\ page = PageA => Val(out).kursAnmeldungen = kursAnmeldungen(WithoutAnmeldung(i))
        /\ page = PageB =>
             /\ Val(out).kursAnmeldungenData = kursAnmeldungenData(WithoutAnmeldung(i))
             /\ Val(out).gesamtUmsatz = gesamtUmsatz(WithoutAnmeldung(i))

C8_Witness ==
  /\ Rendered(PageB)
  /\ Val(out).gesamtUmsatz > 0
  /\ Val(out).bezahltCount = 2
  /\ \E i \in 1..Len(OutAnmeldungen) :
       /\ RefId(OutAnmeldungen[i]) # None
       /\ ~Resolves(OutAnmeldungen[i], OutKurse)
       /\ PaidFlagTrue(OutAnmeldungen[i])

\* the instant a course starts / ends, when the field holds a date that parses
HasInstant(str) == str # None /\ parseISO(Val(str)).valid
InstantOf(str) == parseISO(Val(str)).time

\* how often a course record occurs in a list
Occurrences(k, seq) == Cardinality({i \in 1..Len(seq) : seq[i] = k})

\* `list` is the first `limit` of the courses of `kurse` that satisfy Q, in
\* ascending order of start: sorted, of the right length, drawn from the
\* qualifying courses, and no qualifying course left out starts before a
\* listed one
IsFirstByStart(list, kurse, limit, Q(_)) ==
  /\ Len(list) = Min(limit, Cardinality({i \in 1..Len(kurse) : Q(kurse[i])}))
  /\ \A i, j \in 1..Len(list) :
       i < j => InstantOf(list[i].fields.startdatum) <= InstantOf(list[j].fields.startdatum)
  /\ \A i \in 1..Len(list) :
       Q(list[i]) /\ Occurrences(list[i], list) <= Occurrences(list[i], kurse)
  /\ \A i \in 1..Len(kurse) :
       (Q(kurse[i]) /\ Occurrences(kurse[i], list) < Occurrences(kurse[i], kurse)) =>
          \A j \in 1..Len(list) :
             InstantOf(list[j].fields.startdatum) <= InstantOf(kurse[i].fields.startdatum)

StartsAfterNow(k) ==
  HasInstant(k.fields.startdatum) /\ InstantOf(k.fields.startdatum) > Val(out).today

StartsAtOrAfterNow(k) ==
  HasInstant(k.fields.startdatum) /\ InstantOf(k.fields.startdatum) >= Val(out).today

\* C9 as stated: in both pages the upcoming list is the courses that start
\* strictly after now, ascending by start, cut to the first 5 (4 in PageB);
\* it has at most 5 entries and none starts at or before now.
C9_UpcomingStrictlyAfter ==
  out # None =>
    /\ IsFirstByStart(Val(out).upcomingKurse, OutKurse,
                      IF page = PageA THEN UpcomingA ELSE UpcomingB, StartsAfterNow)
    /\ Len(Val(out).upcomingKurse) <= UpcomingA

\* C9 amended: in PageA the list is the courses that start strictly after
\* now, ascending by start, cut to the first 5; in PageB it is the courses
\* that start at or after now, ascending by start, cut to the first 4.
C9_UpcomingPerPage ==
  /\ Rendered(PageA) =>
       IsFirstByStart(Val(out).upcomingKurse, OutKurse, UpcomingA, StartsAfterNow)
  /\ Rendered(PageB) =>
       IsFirstByStart(Val(out).upcomingKurse, OutKurse, UpcomingB, StartsAtOrAfterNow)
  /\ out # None => Len(Val(out).upcomingKurse) <= UpcomingA

C9_Witness ==
  /\ Rendered(PageA)
  /\ Len(Val(out).upcomingKurse) = UpcomingA
  /\ Cardinality({i \in 1..Len(OutKurse) : StartsAfterNow(OutKurse[i])}) > UpcomingA
  /\ \E i \in 1..Len(OutKurse) :
       /\ HasInstant(OutKurse[i].fields.startdatum)
       /\ InstantOf(OutKurse[i].fields.startdatum) = Val(out).today
  /\ OutKurse[1] # Val(out).upcomingKurse[1]

\* a date field that is undefined: absent, or the empty string
NoDate(str) == str = None \/ Val(str) = EmptyString

ActiveByDates(k) ==
  /\ HasInstant(k.fields.startdatum)
  /\ InstantOf(k.fields.startdatum) < Val(out).today
  /\ \/ NoDate(k.fields.enddatum)
     \/ HasInstant(k.fields.enddatum) /\ InstantOf(k.fields.enddatum) > Val(out).today

\* C10 as stated: in both pages the active courses (the count shown) are
\* exactly the courses with a start strictly before now and an end that is
\* undefined or strictly after now; the status plays no part.
C10_ActiveByDates ==
  /\ Rendered(PageA) => Val(out).activeKurse = SelectSeq(OutKurse, ActiveByDates)
  /\ Rendered(PageB) => Val(out).aktiveKurse = Len(SelectSeq(OutKurse, ActiveByDates))

\* C10 amended: in PageA the active courses are exactly the courses with a
\* start strictly before now and an end that is undefined or strictly after
\* now, whatever their status; in PageB the count of active courses is
\* the number of courses whose status is 'aktiv', whatever their dates.
C10_ActivePerPage ==
  /\ Rendered(PageA) => Val(out).activeKurse = SelectSeq(OutKurse, ActiveByDates)
  /\ Rendered(PageB) =>
       Val(out).aktiveKurse =
         Cardinality({i \in 1..Len(OutKurse) :
                        /\ OutKurse[i].fields.status # None
                        /\ Val(OutKurse[i].fields.status) = "aktiv"})

C10_Witness ==
  /\ Rendered(PageA)
  /\ Len(OutKurse) = 1
  /\ Val(out).activeKurse = OutKurse
  /\ OutKurse[1].fields.status = Some("geplant")
  /\ HasInstant(OutKurse[1].fields.enddatum)

\* the number of courses of the rendered snapshot that carry status s
CoursesWithStatus(s) ==
  Cardinality({i \in 1..Len(OutKurse) :
                 OutKurse[i].fields.status # None /\ Val(OutKurse[i].fields.status) = s})

\* C11: the status distribution has no entry with count 0; it has exactly one
\* entry for each of the four statuses that some course carries and none for
\* the others; each entry's count is the number of courses with that status
\* and its colour is the fixed colour of that status.
C11_StatusDistribution ==
  Rendered(PageB) =>
    LET sd == Val(out).statusData
    IN /\ \A i \in 1..Len(sd) : sd[i].value > 0
       /\ Len(sd) = Cardinality({i \in 1..Len(StatusOrder) :
                                   CoursesWithStatus(StatusOrder[i]) > 0})
       /\ \A n \in 1..Len(StatusOrder) :
            LET s == StatusOrder[n]
                at == {i \in 1..Len(sd) : sd[i].name = STATUS_LABELS(s)}
            IN IF CoursesWithStatus(s) = 0 THEN at = {}
               ELSE /\ Cardinality(at) = 1
                    /\ \A i \in at : /\ sd[i].value = CoursesWithStatus(s)
                                     /\ sd[i].color = STATUS_COLORS(s)

C11_Witness ==
  /\ Rendered(PageB)
  /\ Len(OutKurse) = 2
  /\ Len(Val(out).statusData) = 1
  /\ Val(out).statusData[1].value = 1
  /\ \E i \in 1..2 : OutKurse[i].fields.status = None

\* the registration has a date the claim can order it by: none (instant 0)
\* or one that parses
HasRegistrationDate(a) == NoDate(a.fields.anmeldedatum) \/ HasInstant(a.fields.anmeldedatum)

RegistrationInstant(a) ==
  IF NoDate(a.fields.anmeldedatum) THEN 0 ELSE InstantOf(a.fields.anmeldedatum)

\* C12 as stated: the recent list has min(6, n) entries in non-increasing
\* order of registration date, a missing date counting as instant 0; no
\* registration left out is dated strictly later than a listed one, and an
\* undated registration comes only after the listed ones dated after the epoch.
C12_RecentByDate ==
  Rendered(PageA) =>
    LET list == Val(out).recentAnmeldungen
    IN /\ Len(list) = Min(TopRecent, Len(OutAnmeldungen))
       /\ \A i, j \in 1..Len(list) :
            (i < j /\ HasRegistrationDate(list[i]) /\ HasRegistrationDate(list[j]))
               => RegistrationInstant(list[i]) >= RegistrationInstant(list[j])
       /\ \A i, j \in 1..Len(list) :
            (NoDate(list[i].fields.anmeldedatum) /\ HasInstant(list[j].fields.anmeldedatum)
               /\ InstantOf(list[j].fields.anmeldedatum) > 0) => j < i
       /\ \A k \in 1..Len(OutAnmeldungen) :
            (/\ HasRegistrationDate(OutAnmeldungen[k])
             /\ Occurrences(OutAnmeldungen[k], list)
                  < Occurrences(OutAnmeldungen[k], OutAnmeldungen)) =>
               \A j \in 1..Len(list) :
                  HasRegistrationDate(list[j]) =>
                     RegistrationInstant(OutAnmeldungen[k]) <= RegistrationInstant(list[j])

\* the same, for snapshots in which every registration date that is present
\* parses
C12_RecentByDateWellFormed ==
  (Rendered(PageA) /\ \A k \in 1..Len(OutAnmeldungen) : HasRegistrationDate(OutAnmeldungen[k]))
     => C12_RecentByDate

\* the snapshot a render read is absent, or all five of its collections are
\* empty
NothingLoaded(st) ==
  \/ st = None
  \/ /\ Val(st).kurse = <<>> /\ Val(st).anmeldungen = <<>> /\ Val(st).dozenten = <<>>
     /\ Val(st).teilnehmer = <<>> /\ Val(st).raeume = <<>>

\* C13: a render on no snapshot (still loading, or after a failed load) or on
\* five empty collections computes every aggregate as empty or zero, and a
\* render is possible in every such state.
C13_EmptyAggregates ==
  /\ (Rendered(PageA) /\ NothingLoaded(Val(out).stats)) =>
        /\ Val(out).activeKurse = <<>>
        /\ Val(out).upcomingKurse = <<>>
        /\ Val(out).bezahltCount = 0
        /\ Val(out).unbezahltCount = 0
        /\ Val(out).kursAnmeldungen = <<>>
        /\ Val(out).recentAnmeldungen = <<>>
  /\ (Rendered(PageB) /\ NothingLoaded(Val(out).stats)) =>
        /\ Val(out).aktiveKurse = 0
        /\ Val(out).upcomingKurse = <<>>
        /\ Val(out).bezahltCount = 0
        /\ Val(out).unbezahltCount = 0
        /\ Val(out).kursAnmeldungenData = <<>>
        /\ Val(out).statusData = <<>>
        /\ Val(out).gesamtUmsatz = 0
  /\ (mounted /\ NothingLoaded(stats)) => ENABLED (RenderA \/ RenderB)

C13_Witness ==
  /\ Rendered(PageB)
  /\ Val(out).stats = None
  /\ loading = FALSE
  /\ errorLog = 1
  /\ Val(out).statusData = <<>>

====
